---- MODULE Spec2Model ----
(***************************************************************************)
(* A model of ticket_generator.py: TicketGenerator (number formatting and  *)
(* the two mirrored vertical overlays), PDFGenerator.create_pdf (aspect    *)
(* fit of the cell, the per-ticket loop, page breaks, cell origins, save)  *)
(* and main (input validation, the top-level exception handler).           *)
(*                                                                         *)
(* Lengths that Python holds as floats are exact rationals [n, d] here,    *)
(* kept in lowest terms with d > 0; the rounding of IEEE doubles is not    *)
(* modelled, except for the floor division by the double 2.7, whose        *)
(* rounding changes integer results.  An image is a record of its size,    *)
(* whether a border was drawn on it, and the overlays pasted on it.        *)
(***************************************************************************)
EXTENDS Integers, Sequences, FiniteSets, TLC

(* ---------------------------------------------------------------- bounds *)

\* The largest number of tickets a run is asked for.
MaxTickets == 17

\* Values typed at the "starting ticket number" prompt (0 is rejected).
StartNumbers == {0, 1, 42, 999995}

\* Pixel sizes <<width, height>> of the template file.
Templates ==
    { <<2000, 1000>>, <<1720, 860>>, <<1500, 1000>>, <<800, 800>>,
      <<3300, 1000>>, <<500, 1000>> }

(* ------------------------------------------------------------- constants *)

FONT_SIZE == 32
MARGIN == 20
SPACING == 10
TEXT_PADDING == 50
TEXT_COLOR == "#002f79"
tickets_per_page == 8

(* ------------------------------------------------------------- rationals *)

RECURSIVE GCD(_, _)
GCD(a, b) == IF b = 0 THEN a ELSE GCD(b, a % b)

Abs(a) == IF a < 0 THEN -a ELSE a

\* n / d in lowest terms, d > 0.
Rat(n, d) ==
    LET s == IF d < 0 THEN -1 ELSE 1
        g == GCD(Abs(n), Abs(d))
    IN  [n |-> (s * n) \div g, d |-> (s * d) \div g]

RInt(k) == [n |-> k, d |-> 1]

RAdd(a, b) ==
    LET g == GCD(a.d, b.d)
    IN  Rat(a.n * (b.d \div g) + b.n * (a.d \div g), a.d * (b.d \div g))

RSub(a, b) == RAdd(a, [n |-> -b.n, d |-> b.d])

RMul(a, b) == Rat(a.n * b.n, a.d * b.d)

RDiv(a, b) == Rat(a.n * b.d, a.d * b.n)

RLe(a, b) ==
    LET g == GCD(a.d, b.d)
    IN  a.n * (b.d \div g) <= b.n * (a.d \div g)

RLt(a, b) == ~RLe(b, a)

\* int(x) of a non-negative float.
RFloor(a) == a.n \div a.d

(* ----------------------------------------------------------- page sizes *)

\* landscape(A4): A4 is (210 mm, 297 mm) with mm = 72 / 25.4 points.
LandscapeA4 == <<Rat(297 * 360, 127), Rat(210 * 360, 127)>>

\* Page sizes a PDFGenerator is constructed with; main uses the default.
PageSizes == { LandscapeA4, <<RInt(500), RInt(500)>> }

(* ------------------------------------------------------ TicketGenerator *)

DigitChars == <<"0", "1", "2", "3", "4", "5", "6", "7", "8", "9">>

\* The decimal digits of n >= 0, most significant first.
RECURSIVE Digits(_)
Digits(n) ==
    IF n < 10 THEN <<DigitChars[n + 1]>>
    ELSE Append(Digits(n \div 10), DigitChars[(n % 10) + 1])

\* s left-padded with "0" to at least width characters.
RECURSIVE ZeroPad(_, _)
ZeroPad(s, width) == IF Len(s) >= width THEN s ELSE ZeroPad(<<"0">> \o s, width)

\* f"{ticket_number:05d}": the padding width mistyped.
Format05d(ticket_number) == ZeroPad(Digits(ticket_number), 5)

\* f"{ticket_number:06d}"
Format06d(ticket_number) == ZeroPad(Digits(ticket_number), 6)

\* f"NO: {ticket_number:06d}"
formatted_number(ticket_number) ==
    <<"N", "O", ":", " ">> \o Format06d(ticket_number)

\* f"ticket_{ticket_number:06d}.png"
output_name(ticket_number) ==
    <<"ticket_">> \o Format06d(ticket_number) \o <<".png">>

\* The rotated text image: drawn FONT_SIZE * len(text) wide and FONT_SIZE
\* high, then rotated by 90 degrees with expand, which swaps the two.
_create_vertical_text(text, color) ==
    LET text_width == FONT_SIZE * Len(text)
        txt_img == <<text_width, FONT_SIZE>>
    IN  [text |-> text, color |-> color, size |-> <<txt_img[2], txt_img[1]>>]

\* x // 2.7 for an integer x.  The double 2.7 is slightly above 27/10, so
\* the quotient of a positive multiple of 27 falls just short of an integer.
FloorDiv27(x) ==
    IF x > 0 /\ x % 27 = 0 THEN (10 * x) \div 27 - 1 ELSE (10 * x) \div 27

left_x == TEXT_PADDING

left_y(img_height, left_text) == FloorDiv27(img_height - left_text.size[2])

\* The right overlay placed at the padding, its own width forgotten.
right_x_unmirrored(img_width, right_text) == img_width - TEXT_PADDING

right_x(img_width, right_text) == img_width - TEXT_PADDING - right_text.size[1]

\* draw.rectangle(... outline, width=2) and the two pastes, on img.
Stamp(img, ticket_number) ==
    LET text == formatted_number(ticket_number)
        left_text == _create_vertical_text(text, TEXT_COLOR)
        ly == left_y(img.size[2], left_text)
        right_text == _create_vertical_text(text, TEXT_COLOR)
        rx == right_x(img.size[1], right_text)
        ry == ly
    IN  [size |-> img.size,
         border |-> TRUE,
         pastes |-> img.pastes \o
                    << [glyph |-> left_text, x |-> left_x, y |-> ly],
                       [glyph |-> right_text, x |-> rx, y |-> ry] >>]

\* Image.open(self.template_path) decodes the file into a new image; the
\* result is what img.save writes to output_path.
add_numbers_to_ticket(ticket_number, file) ==
    [path |-> output_name(ticket_number), img |-> Stamp(file, ticket_number)]

\* The composition drawn on the template object itself (no copy): the
\* caller's template and the returned image are then one object.
add_numbers_to_ticket_memory_nocopy(ticket_number, template) ==
    LET img == Stamp(template, ticket_number)
    IN  [img |-> img, template |-> img]

\* img = template.copy(), then the composition on img.  The result holds the
\* returned image and the caller's template object as the call leaves it.
add_numbers_to_ticket_memory(ticket_number, template) ==
    LET img == Stamp(template, ticket_number)
    IN  [img |-> img, template |-> template]

(* --------------------------------------------------------- PDFGenerator *)

usable_width(pw) == RSub(pw, RInt(2 * MARGIN))

usable_height(ph) == RSub(ph, RInt(2 * MARGIN))

\* The candidate cell, before the aspect fit.
candidate_width(pw) == RDiv(RSub(usable_width(pw), RInt(SPACING)), RInt(2))

candidate_height(ph) == RDiv(RSub(usable_height(ph), RInt(SPACING)), RInt(2))

\* The else branch multiplying where the code divides.
FitCellMultiplied(tw, th, ratio) ==
    IF RLt(ratio, RDiv(tw, th))
    THEN [w |-> RMul(th, ratio), h |-> th]
    ELSE [w |-> tw, h |-> RMul(tw, ratio)]

\* The comparison turned around.
FitCellReversed(tw, th, ratio) ==
    IF RLt(RDiv(tw, th), ratio)
    THEN [w |-> RMul(th, ratio), h |-> th]
    ELSE [w |-> tw, h |-> RDiv(tw, ratio)]

\* if ticket_width / ticket_height > template_ratio: ... else: ...
FitCell(tw, th, ratio) ==
    IF RLt(ratio, RDiv(tw, th))
    THEN [w |-> RMul(th, ratio), h |-> th]
    ELSE [w |-> tw, h |-> RDiv(tw, ratio)]

\* ticket_number = start_number + i + 1: numbering from the wrong ordinal.
TicketNumberOffByOne(start, k) == start + k + 1

\* ticket_number = start_number + i
TicketNumber(start, k) == start + k

page_position(k) == k % tickets_per_page

\* row = page_position // 4: the divisor of the other grid dimension.
RowByFour(pos) == pos \div 4

\* row = page_position // 2
Row(pos) == pos \div 2

\* col = page_position % 2
Col(pos) == pos % 2

\* if page_position == 0: the guard on the first ordinal left out.
PageBreakAlsoFirst(pos, k) == pos = 0

\* if page_position == 0 and i != 0
PageBreak(pos, k) == pos = 0 /\ k # 0

\* x = MARGIN + col * (ticket_width + SPACING)
CellX(col, tw) == RAdd(RInt(MARGIN), RMul(RInt(col), RAdd(tw, RInt(SPACING))))

\* y = self.page_height - MARGIN - (row + 1) * ticket_height - row * SPACING
CellY(row, th, ph) ==
    RSub(RSub(RSub(ph, RInt(MARGIN)), RMul(RInt(row + 1), th)),
         RInt(row * SPACING))

\* Canvas.showPage: the page being drawn is closed, a new one begun.
showPage(cv) == [pages |-> Append(cv.pages, cv.code), code |-> 0]

\* Canvas.drawImage: one more image on the page being drawn.
drawImage(cv) == [pages |-> cv.pages, code |-> cv.code + 1]

\* Canvas.save: a page with content is closed first; the pages written.
SavedPages(cv) == IF cv.code > 0 THEN showPage(cv).pages ELSE cv.pages

(* ----------------------------------------------------------------- state *)

VARIABLES
    pc,                 \* the position of the run
    generate_images,    \* main: the answer to the first prompt
    template_file,      \* the template image file on disk
    page_width,         \* PDFGenerator.page_width
    page_height,        \* PDFGenerator.page_height
    start_number,       \* main: the validated starting number
    num_tickets,        \* main: the validated ticket count
    img,                \* create_pdf: the resized template in memory
    template_ratio,     \* create_pdf: template width / height
    ticket_width,       \* create_pdf: the cell width
    ticket_height,      \* create_pdf: the cell height
    i,                  \* create_pdf: the loop ordinal
    ticket_number,      \* create_pdf: the number of ordinal i
    ticket_img,         \* create_pdf: the composed ticket of ordinal i
    c,                  \* the canvas: closed pages, images on the open page
    drawn,              \* every drawImage call so far, in order
    generated_tickets,  \* the individual image files written so far
    pdf_file,           \* the pages of the written document; <<>> before save
    saved,              \* c.save() has returned
    raised_at,          \* where an exception was raised; "" when none was
    exit_code           \* sys.exit's argument; -1 while running

vars ==
    << pc, generate_images, template_file, page_width, page_height,
       start_number, num_tickets, img, template_ratio, ticket_width,
       ticket_height, i, ticket_number, ticket_img, c, drawn,
       generated_tickets, pdf_file, saved, raised_at, exit_code >>

NewImage(size) == [size |-> size, border |-> FALSE, pastes |-> <<>>]

NoImage == NewImage(<<0, 0>>)

\* main up to the number prompts, with a PDFGenerator of the given page size.
Start(page_size) ==
    /\ pc = "input"
    /\ generate_images \in BOOLEAN
    /\ \E size \in Templates : template_file = NewImage(size)
    /\ page_width = page_size[1]
    /\ page_height = page_size[2]
    /\ start_number = 0
    /\ num_tickets = 0
    /\ img = NoImage
    /\ template_ratio = RInt(0)
    /\ ticket_width = RInt(0)
    /\ ticket_height = RInt(0)
    /\ i = 0
    /\ ticket_number = 0
    /\ ticket_img = NoImage
    /\ c = [pages |-> <<>>, code |-> 0]
    /\ drawn = <<>>
    /\ generated_tickets = <<>>
    /\ pdf_file = <<>>
    /\ saved = FALSE
    /\ raised_at = ""
    /\ exit_code = -1

\* main: PDFGenerator() with the default page size.
Init == Start(LandscapeA4)

\* A PDFGenerator constructed with any of the page sizes.
InitLayout == \E page_size \in PageSizes : Start(page_size)

(* --------------------------------------------------------------- actions *)

\* main: the two number prompts; values below 1 are asked for again.
Prompt ==
    /\ pc = "input"
    /\ \E s \in StartNumbers, n \in 0 .. MaxTickets :
          IF s < 1 \/ n < 1
          THEN UNCHANGED << pc, start_number, num_tickets >>
          ELSE /\ start_number' = s
               /\ num_tickets' = n
               /\ pc' = "layout"
    /\ UNCHANGED << generate_images, template_file, page_width, page_height,
                    img, template_ratio, ticket_width, ticket_height, i,
                    ticket_number, ticket_img, c, drawn, generated_tickets,
                    pdf_file, saved, raised_at, exit_code >>

\* create_pdf up to the loop: the resized template and the cell size.
Layout ==
    /\ pc = "layout"
    /\ LET ratio == Rat(template_file.size[1], template_file.size[2])
           optimal_width == RFloor(RMul(RInt(1000), ratio))
           optimal_height == 1000
           cell == FitCell(candidate_width(page_width),
                           candidate_height(page_height), ratio)
       IN  /\ template_ratio' = ratio
           /\ img' = NewImage(<<optimal_width, optimal_height>>)
           /\ ticket_width' = cell.w
           /\ ticket_height' = cell.h
    /\ i' = 0
    /\ pc' = "loop"
    /\ UNCHANGED << generate_images, template_file, page_width, page_height,
                    start_number, num_tickets, ticket_number, ticket_img, c,
                    drawn, generated_tickets, pdf_file, saved, raised_at,
                    exit_code >>

\* for i in range(num_tickets): ticket_number = start_number + i
NextTicket ==
    /\ pc = "loop"
    /\ i < num_tickets
    /\ ticket_number' = TicketNumber(start_number, i)
    /\ pc' = IF generate_images THEN "image" ELSE "compose"
    /\ UNCHANGED << generate_images, template_file, page_width, page_height,
                    start_number, num_tickets, img, template_ratio,
                    ticket_width, ticket_height, i, ticket_img, c, drawn,
                    generated_tickets, pdf_file, saved, raised_at, exit_code >>

\* ticket_generator.add_numbers_to_ticket(ticket_number, "generated_tickets")
SaveImage ==
    /\ pc = "image"
    /\ generated_tickets' =
          Append(generated_tickets,
                 add_numbers_to_ticket(ticket_number, template_file))
    /\ pc' = "compose"
    /\ UNCHANGED << generate_images, template_file, page_width, page_height,
                    start_number, num_tickets, img, template_ratio,
                    ticket_width, ticket_height, i, ticket_number, ticket_img,
                    c, drawn, pdf_file, saved, raised_at, exit_code >>

\* ticket_img = ticket_generator.add_numbers_to_ticket_memory(ticket_number, img)
Compose ==
    /\ pc = "compose"
    /\ LET r == add_numbers_to_ticket_memory(ticket_number, img)
       IN  /\ ticket_img' = r.img
           /\ img' = r.template
    /\ pc' = "place"
    /\ UNCHANGED << generate_images, template_file, page_width, page_height,
                    start_number, num_tickets, template_ratio, ticket_width,
                    ticket_height, i, ticket_number, c, drawn,
                    generated_tickets, pdf_file, saved, raised_at, exit_code >>

\* The position of ordinal i, the page break, and c.drawImage.
Place ==
    /\ pc = "place"
    /\ LET pos == page_position(i)
           row == Row(pos)
           col == Col(pos)
           brk == PageBreak(pos, i)
           cv == IF brk THEN showPage(c) ELSE c
           x == CellX(col, ticket_width)
           y == CellY(row, ticket_height, page_height)
       IN  /\ c' = drawImage(cv)
           /\ drawn' = Append(drawn,
                  [i |-> i, ticket_number |-> ticket_number,
                   img |-> ticket_img, page_break |-> brk,
                   page |-> Len(cv.pages), row |-> row, col |-> col,
                   x |-> x, y |-> y,
                   w |-> ticket_width, h |-> ticket_height])
    /\ i' = i + 1
    /\ pc' = "loop"
    /\ UNCHANGED << generate_images, template_file, page_width, page_height,
                    start_number, num_tickets, img, template_ratio,
                    ticket_width, ticket_height, ticket_number, ticket_img,
                    generated_tickets, pdf_file, saved, raised_at, exit_code >>

\* c.save() after the loop.
Save ==
    /\ pc = "loop"
    /\ i >= num_tickets
    /\ pdf_file' = SavedPages(c)
    /\ saved' = TRUE
    /\ pc' = "saved"
    /\ UNCHANGED << generate_images, template_file, page_width, page_height,
                    start_number, num_tickets, img, template_ratio,
                    ticket_width, ticket_height, i, ticket_number, ticket_img,
                    c, drawn, generated_tickets, raised_at, exit_code >>

\* main after create_pdf returns: sys.exit(0)
Success ==
    /\ pc = "saved"
    /\ exit_code' = 0
    /\ pc' = "exit"
    /\ UNCHANGED << generate_images, template_file, page_width, page_height,
                    start_number, num_tickets, img, template_ratio,
                    ticket_width, ticket_height, i, ticket_number, ticket_img,
                    c, drawn, generated_tickets, pdf_file, saved, raised_at >>

\* Where create_pdf can raise: opening the template, writing an individual
\* image, composing or encoding a ticket, drawing it, and c.save().
RaisePoints == {"layout", "image", "compose", "place", "loop"}

\* A try/except around the loop body that skips the failing ticket and
\* carries on with the next ordinal.
RaiseSwallowed ==
    /\ pc \in RaisePoints
    /\ pc = "loop" => i >= num_tickets
    /\ raised_at' = pc
    /\ IF pc \in {"image", "compose", "place"}
       THEN pc' = "loop" /\ i' = i + 1
       ELSE pc' = "except" /\ i' = i
    /\ UNCHANGED << generate_images, template_file, page_width, page_height,
                    start_number, num_tickets, img, template_ratio,
                    ticket_width, ticket_height, ticket_number, ticket_img, c,
                    drawn, generated_tickets, pdf_file, saved, exit_code >>

\* An exception raised in create_pdf: nothing in create_pdf catches it, so
\* control leaves it for main's except clause.
Raise ==
    /\ pc \in RaisePoints
    /\ pc = "loop" => i >= num_tickets
    /\ raised_at' = pc
    /\ pc' = "except"
    /\ UNCHANGED << generate_images, template_file, page_width, page_height,
                    start_number, num_tickets, img, template_ratio,
                    ticket_width, ticket_height, i, ticket_number, ticket_img,
                    c, drawn, generated_tickets, pdf_file, saved, exit_code >>

\* main: except Exception as e: print(...); sys.exit(1)
Report ==
    /\ pc = "except"
    /\ exit_code' = 1
    /\ pc' = "exit"
    /\ UNCHANGED << generate_images, template_file, page_width, page_height,
                    start_number, num_tickets, img, template_ratio,
                    ticket_width, ticket_height, i, ticket_number, ticket_img,
                    c, drawn, generated_tickets, pdf_file, saved, raised_at >>

Next ==
    \/ Prompt
    \/ Layout
    \/ NextTicket
    \/ SaveImage
    \/ Compose
    \/ Place
    \/ Save
    \/ Success
    \/ Raise
    \/ Report

Spec == Init /\ [][Next]_vars

SpecLayout == InitLayout /\ [][Next]_vars

(* ------------------------------------------------- reading the results *)

DigitSet == { DigitChars[j] : j \in 1 .. Len(DigitChars) }

DigitValue(ch) == CHOOSE v \in 0 .. 9 : DigitChars[v + 1] = ch

\* The number a sequence of digit characters denotes.
RECURSIVE Value(_)
Value(ds) ==
    IF Len(ds) = 0 THEN 0
    ELSE 10 * Value(SubSeq(ds, 1, Len(ds) - 1)) + DigitValue(ds[Len(ds)])

IsDigits(ds) == \A j \in 1 .. Len(ds) : ds[j] \in DigitSet

\* The digits after the four-character prefix of an overlay text.
NumberPart(text) == SubSeq(text, 5, Len(text))

\* The digits between "ticket_" and ".png" of a file name.
NamePart(path) == SubSeq(path, 2, Len(path) - 1)

\* Every overlay text on a composed image.
TextsOn(image) == { image.pastes[j].glyph.text : j \in 1 .. Len(image.pastes) }

\* Every composed image the run has produced, on either path.
Composed ==
    { drawn[k].img : k \in 1 .. Len(drawn) } \cup
    { generated_tickets[k].img : k \in 1 .. Len(generated_tickets) }

\* create_pdf has computed the cell and resized the template.
LayoutDone == pc \notin {"input", "layout"} /\ raised_at # "layout"

(* ---------------------------------------------------------------- claims *)

\* C1: the k-th ticket drawn (k counted from 0) carries the number
\* start_number + k, on both of its overlays, and a completed run has drawn
\* exactly num_tickets tickets.
C1_NumbersContiguous ==
    /\ Len(drawn) <= num_tickets
    /\ \A k \in 1 .. Len(drawn) :
          /\ drawn[k].ticket_number = start_number + (k - 1)
          /\ TextsOn(drawn[k].img) # {}
          /\ \A t \in TextsOn(drawn[k].img) :
                /\ IsDigits(NumberPart(t))
                /\ Value(NumberPart(t)) = start_number + (k - 1)
    /\ saved => Len(drawn) = num_tickets

C1_Witness ==
    /\ saved
    /\ start_number = 42
    /\ num_tickets = 12
    /\ Len(drawn) = 12
    /\ drawn[12].ticket_number = 53

\* C2 as stated: every overlay text is "NO: " and exactly six digits, ten
\* characters in all, and every file name holds exactly six digits.
C2_FixedWidth ==
    /\ \A k \in 1 .. Len(drawn) : \A t \in TextsOn(drawn[k].img) :
          /\ Len(t) = 10
          /\ SubSeq(t, 1, 4) = <<"N", "O", ":", " ">>
          /\ IsDigits(NumberPart(t))
    /\ \A k \in 1 .. Len(generated_tickets) :
          /\ Len(NamePart(generated_tickets[k].path)) = 6
          /\ \A t \in TextsOn(generated_tickets[k].img) : Len(t) = 10

\* The digits ds denote n, zero-padded to six and never cut: six digits up
\* to 999999, and all the digits of n, unpadded, above.
PaddedToSix(ds, n) ==
    /\ IsDigits(ds)
    /\ Value(ds) = n
    /\ Len(ds) >= 6
    /\ n <= 999999 => Len(ds) = 6
    /\ n >= 1000000 => Len(ds) > 6 /\ ds[1] # "0"

\* C2 as amended: every overlay text is "NO: " followed by the number
\* zero-padded to at least six digits, and so is the number part of the file
\* name; the text is ten characters long exactly when the number is at most
\* 999999.
C2_MinWidth ==
    /\ \A k \in 1 .. Len(drawn) : \A t \in TextsOn(drawn[k].img) :
          /\ SubSeq(t, 1, 4) = <<"N", "O", ":", " ">>
          /\ PaddedToSix(NumberPart(t), drawn[k].ticket_number)
          /\ Len(t) = 10 <=> drawn[k].ticket_number <= 999999
    /\ \A k \in 1 .. Len(generated_tickets) :
          LET f == generated_tickets[k]
              n == Value(NamePart(f.path))
          IN  /\ f.path[1] = "ticket_"
              /\ f.path[Len(f.path)] = ".png"
              /\ PaddedToSix(NamePart(f.path), n)
              /\ \A t \in TextsOn(f.img) :
                    /\ NumberPart(t) = NamePart(f.path)
                    /\ SubSeq(t, 1, 4) = <<"N", "O", ":", " ">>

C2_Witness ==
    /\ generate_images
    /\ Len(generated_tickets) >= 6
    /\ \E k \in 1 .. Len(drawn) : drawn[k].ticket_number = 999999
    /\ \E k \in 1 .. Len(drawn) : drawn[k].ticket_number = 1000000

\* C3: a page break precedes ordinal k exactly when k mod 8 = 0 and k # 0;
\* the written document has ceil(num_tickets / 8) pages, none of them empty,
\* and 8 tickets give one page and no page break.
C3_PageCount ==
    /\ \A k \in 1 .. Len(drawn) :
          drawn[k].page_break <=> ((k - 1) % 8 = 0 /\ k - 1 # 0)
    /\ saved =>
          /\ Len(pdf_file) = (num_tickets + 7) \div 8
          /\ \A p \in 1 .. Len(pdf_file) : pdf_file[p] > 0
    /\ (saved /\ num_tickets = 8) =>
          /\ pdf_file = <<8>>
          /\ \A k \in 1 .. Len(drawn) : ~drawn[k].page_break

C3_Witness ==
    /\ saved
    /\ num_tickets = 16
    /\ Len(pdf_file) = 2
    /\ drawn[9].page_break

\* C4: ordinal k is drawn on page k div 8, at row (k mod 8) div 2 and column
\* (k mod 8) mod 2; no two tickets of a page share a cell; with start 1 and
\* 10 tickets page 1 holds ordinals 0..7 over 4 rows and 2 columns and
\* page 2 holds ordinals 8 and 9 at row 0, columns 0 and 1.
C4_GridPlacement ==
    /\ \A k \in 1 .. Len(drawn) :
          /\ drawn[k].i = k - 1
          /\ drawn[k].page = (k - 1) \div 8
          /\ drawn[k].row = ((k - 1) % 8) \div 2
          /\ drawn[k].col = ((k - 1) % 8) % 2
    /\ \A j, k \in 1 .. Len(drawn) :
          (j # k /\ drawn[j].page = drawn[k].page) =>
             <<drawn[j].row, drawn[j].col>> # <<drawn[k].row, drawn[k].col>>
    /\ (saved /\ start_number = 1 /\ num_tickets = 10) =>
          /\ pdf_file = <<8, 2>>
          /\ { <<drawn[k].row, drawn[k].col>> : k \in 1 .. 8 } =
                (0 .. 3) \X (0 .. 1)
          /\ \A k \in 1 .. 8 : drawn[k].page = 0
          /\ <<drawn[9].page, drawn[9].row, drawn[9].col>> = <<1, 0, 0>>
          /\ <<drawn[10].page, drawn[10].row, drawn[10].col>> = <<1, 0, 1>>

C4_Witness ==
    /\ saved
    /\ start_number = 1
    /\ num_tickets = 10
    /\ Len(drawn) = 10

C6_Case ==
    /\ LayoutDone
    /\ Rat(template_file.size[1], template_file.size[2]) = RInt(2)
    /\ candidate_width(page_width) = candidate_height(page_height)

\* C6 as stated: in that case the width is shrunk and the height is left
\* at its candidate value.
C6_WidthShrunk ==
    C6_Case =>
       /\ RLt(ticket_width, candidate_width(page_width))
       /\ ticket_height = candidate_height(page_height)

\* C6 as amended: in that case the height is shrunk, to half the candidate
\* width, and the width is left at its candidate value.
C6_HeightShrunk ==
    C6_Case =>
       /\ ticket_width = candidate_width(page_width)
       /\ ticket_height = RDiv(candidate_width(page_width), RInt(2))
       /\ RLt(ticket_height, candidate_height(page_height))

C6_Witness ==
    /\ C6_Case
    /\ Len(drawn) >= 1

\* C7: once create_pdf has raised, at any ordinal or in the save, control
\* is in main's handler or past it, the handler's report and exit are the
\* next step, the exit code is 1, and the document is never written.
C7_FailureAborts ==
    raised_at # "" =>
       /\ pc \in {"except", "exit"}
       /\ pc = "except" => ENABLED Report
       /\ pc = "exit" => exit_code = 1
       /\ ~saved
       /\ pdf_file = <<>>

C7_Witness ==
    /\ pc = "exit"
    /\ raised_at = "compose"
    /\ Len(drawn) >= 3
    /\ exit_code = 1
    /\ ~saved

\* C8: on every composed image, of either path, the two overlays have the
\* same text and the same vertical offset, and the left overlay is as far
\* from the left edge as the right overlay's right side is from the right
\* edge: the text padding.
C8_Mirrored ==
    \A image \in Composed :
       /\ Len(image.pastes) = 2
       /\ LET l == image.pastes[1]
              r == image.pastes[2]
              leftInset == l.x
              rightInset == image.size[1] - (r.x + r.glyph.size[1])
          IN  /\ l.glyph.text = r.glyph.text
              /\ l.y = r.y
              /\ leftInset = rightInset
              /\ leftInset = TEXT_PADDING

C8_Witness ==
    /\ Len(drawn) >= 2
    /\ Len(generated_tickets) >= 2
    /\ drawn[2].img.size # generated_tickets[2].img.size

\* C9: the in-memory template handed to the composition, and the template
\* file, stay as they were (no border, no overlay), and every ticket drawn
\* carries its own number's two overlays and nothing of an earlier ordinal.
C9_TemplateUntouched ==
    /\ template_file = NewImage(template_file.size)
    /\ LayoutDone =>
          /\ img = NewImage(img.size)
          /\ img.size[2] = 1000
    /\ \A k \in 1 .. Len(drawn) :
          /\ Len(drawn[k].img.pastes) = 2
          /\ TextsOn(drawn[k].img) = {formatted_number(start_number + (k - 1))}
    /\ \A k \in 1 .. Len(generated_tickets) :
          Len(generated_tickets[k].img.pastes) = 2

C9_Witness ==
    /\ generate_images
    /\ Len(drawn) >= 3
    /\ Len(generated_tickets) >= 3
    /\ img = NewImage(img.size)

\* C10: every cell a ticket is drawn at lies inside the usable area of the
\* landscape A4 page: margin <= x, x + width <= page width - margin,
\* margin <= y, y + height <= page height - margin.
C10_CellInsideUsableArea ==
    <<page_width, page_height>> = LandscapeA4 =>
       \A k \in 1 .. Len(drawn) :
          LET d == drawn[k]
          IN  /\ RLe(RInt(MARGIN), d.x)
              /\ RLe(RAdd(d.x, d.w), RSub(page_width, RInt(MARGIN)))
              /\ RLe(RInt(MARGIN), d.y)
              /\ RLe(RAdd(d.y, d.h), RSub(page_height, RInt(MARGIN)))

====
